---- MODULE Spec2Model ----
(***************************************************************************)
(* Model of drivers/cpufreq/cpu_wake_boost.c: the wake-boost state machine *)
(* (enum boost_state), the module parameter wake_boost, the two work items *)
(* boost_work / unboost_work on the workqueue "wake_boost_wq", the cpufreq *)
(* policy notifier do_cpu_boost and the framebuffer notifier.              *)
(*                                                                         *)
(* Time is counted in jiffies.  A pending delayed work carries the number  *)
(* of jiffies left on its timer; Elapse lets time pass, never beyond the   *)
(* expiry of the armed timer, and TimerFire queues the work at expiry.     *)
(*                                                                         *)
(* The workqueue is the one cpu_wake_boost_init allocates:                 *)
(* alloc_workqueue("wake_boost_wq", WQ_HIGHPRI, 0), a per-cpu workqueue    *)
(* with the default max_active.  One work item never runs concurrently     *)
(* with itself, but boost_work and unboost_work are two items and the      *)
(* workqueue does not order them against each other.                       *)
(***************************************************************************)
EXTENDS Integers, Sequences, FiniteSets, TLC

(* ---------------------------------------------------------------- bounds *)
\* number of online cpus walked by for_each_online_cpu
NCPU == 2
\* longest buffer written to the module parameter
MaxBufLen == 2
\* frequencies are 1..MaxFreq
MaxFreq == 3
\* the amount of time (jiffies) one Elapse step may let pass
TickJ == 100

(* ------------------------------------------------------------- constants *)
\* #define FB_BOOST_MS (2000)
FB_BOOST_MS == 2000

\* errno value returned by set_wake_boost on a parse failure
EINVAL == 22

\* errno value returned by cpu_wake_boost_init on an allocation failure
ENOMEM == 12

NO_BOOST == "NO_BOOST"
UNBOOST == "UNBOOST"
BOOST == "BOOST"
boost_state == {NO_BOOST, UNBOOST, BOOST}

\* notifier actions delivered to do_cpu_boost
CPUFREQ_ADJUST == "CPUFREQ_ADJUST"
CPUFREQ_INCOMPATIBLE == "CPUFREQ_INCOMPATIBLE"
CPUFREQ_NOTIFY == "CPUFREQ_NOTIFY"
CpufreqActions == {CPUFREQ_ADJUST, CPUFREQ_INCOMPATIBLE, CPUFREQ_NOTIFY}

\* notifier actions and blank values delivered to fb_notifier_callback
FB_EARLY_EVENT_BLANK == "FB_EARLY_EVENT_BLANK"
FB_EVENT_BLANK == "FB_EVENT_BLANK"
FbActions == {FB_EARLY_EVENT_BLANK, FB_EVENT_BLANK}
FB_BLANK_UNBLANK == "FB_BLANK_UNBLANK"
FB_BLANK_NORMAL == "FB_BLANK_NORMAL"
FB_BLANK_POWERDOWN == "FB_BLANK_POWERDOWN"
FbBlanks == {FB_BLANK_UNBLANK, FB_BLANK_NORMAL, FB_BLANK_POWERDOWN}

Cpus == 1..NCPU
Freqs == 1..MaxFreq
Policies == [min : Freqs, max : Freqs]

\* policy->cpuinfo of each cpu: the clusters differ in their limits
cpuinfo(cpu) ==
  IF cpu % 2 = 1 THEN [min_freq |-> 1, max_freq |-> MaxFreq]
                 ELSE [min_freq |-> 2, max_freq |-> MaxFreq - 1]

(* ----------------------------------------------------- parameter parsing *)
\* the characters a written buffer is made of
Chars == {"0", "5", "x", "\n"}
Digits == {"0", "1", "2", "3", "4", "5", "6", "7", "8", "9"}
DigitVal(c) ==
  CASE c = "0" -> 0 [] c = "1" -> 1 [] c = "2" -> 2 [] c = "3" -> 3
    [] c = "4" -> 4 [] c = "5" -> 5 [] c = "6" -> 6 [] c = "7" -> 7
    [] c = "8" -> 8 [] c = "9" -> 9

RECURSIVE BufsOfLen(_)
BufsOfLen(n) ==
  IF n = 0 THEN {<<>>}
  ELSE {Append(s, c) : s \in BufsOfLen(n - 1), c \in Chars}
Bufs == UNION {BufsOfLen(n) : n \in 0..MaxBufLen}

isspace(c) == c \in {" ", "\n", "\t"}
isdigit(c) == c \in Digits

RECURSIVE skip_spaces(_)
skip_spaces(s) ==
  IF s # <<>> /\ isspace(Head(s)) THEN skip_spaces(Tail(s)) ELSE s

\* simple_strtoul as vsscanf uses it for %u: the value of the run of decimal
\* digits at the head of s.  (The result is stored into an unsigned int; a
\* buffer of at most MaxBufLen digits stays far below 2^32 and never wraps.)
RECURSIVE strtoul_acc(_, _)
strtoul_acc(s, acc) ==
  IF s # <<>> /\ isdigit(Head(s))
  THEN strtoul_acc(Tail(s), acc * 10 + DigitVal(Head(s)))
  ELSE acc

\* sscanf(buf, "%u\n", &val): the number of conversions made and the value
\* stored; white space before the number is skipped, the number must start
\* with a digit (no sign for %u), whatever follows the digits is ignored
sscanf_u(buf) ==
  LET s == skip_spaces(buf)
  IN IF s = <<>> \/ ~isdigit(Head(s))
     THEN [n |-> 0, val |-> 0]
     ELSE [n |-> 1, val |-> strtoul_acc(s, 0)]

\* set_wake_boost reads its buffer through sscanf alone: one buffer for each
\* result sscanf can give on Bufs stands for all the buffers with that result
ScanResults == {sscanf_u(b) : b \in Bufs}
BufReps == {CHOOSE b \in Bufs : sscanf_u(b) = r : r \in ScanResults}

\* msecs_to_jiffies(m) for HZ = 100: rounds up to whole jiffies.  (Values
\* of 2^31 and more, which it maps to MAX_JIFFY_OFFSET, are out of the reach
\* of a buffer of MaxBufLen characters.)
msecs_to_jiffies(m) ==
  LET HZ == 100
      MSEC_PER_SEC == 1000
      per == MSEC_PER_SEC \div HZ
  IN (m + per - 1) \div per

(* ----------------------------------------------------------------- state *)
VARIABLES
  state,            \* wake_info->state
  wake_boost_time,  \* static unsigned int wake_boost_time
  boost_pending,    \* WORK_STRUCT_PENDING of boost_work: queued, not started
  bw,               \* the worker executing wake_boost: [pc, cpu, seen]
  dw,               \* unboost_work: [st, left]
  uw,               \* the worker executing wake_unboost: [pc, cpu, seen,
                    \* alone]; alone records that no other context has
                    \* evaluated a policy or written state during this run
  ext,              \* a policy re-evaluation outside the two work items:
                    \* [pc, cpu, seen]
  fb,               \* the thread delivering framebuffer events: [pc, ret]
  boot,             \* cpu_wake_boost_init: [pc, ret, w, wq, cpu_notif,
                    \* fb_notif]: where it stands, what it returned, what
                    \* it has allocated and registered
  param_ret,        \* what the last set_wake_boost returned
  last_ev           \* the last display or parameter event handled: "active"
                    \* (unblank), "param" (a successful write), "inactive"
                    \* (a blank that follows a wake with no write since) or
                    \* "blank" (any other blank); "none" at the start

vars == <<state, wake_boost_time, boost_pending, bw, dw, uw, ext, fb,
          param_ret, last_ev, boot>>

WorkerIdle == [pc |-> "idle", cpu |-> 0, seen |-> NO_BOOST]
UnboostIdle == [pc |-> "idle", cpu |-> 0, seen |-> NO_BOOST, alone |-> TRUE]
FbIdle == [pc |-> "idle", ret |-> FALSE]
DwIdle == [st |-> "idle", left |-> 0]

\* cpu_wake_boost_init has returned 0 with everything allocated and both
\* notifiers registered
Booted ==
  [pc |-> "done", ret |-> 0, w |-> TRUE, wq |-> TRUE, cpu_notif |-> TRUE,
   fb_notif |-> TRUE]

\* wake_boost_time is static (zero), kzalloc zeroes state (NO_BOOST = 0),
\* INIT_WORK / INIT_DELAYED_WORK leave both work items idle
Init ==
  /\ boot = Booted
  /\ state = NO_BOOST
  /\ wake_boost_time = 0
  /\ boost_pending = FALSE
  /\ bw = WorkerIdle
  /\ dw = DwIdle
  /\ uw = UnboostIdle
  /\ ext = WorkerIdle
  /\ fb = FbIdle
  /\ param_ret = 0
  /\ last_ev = "none"

(* ------------------------------------------------- workqueue primitives *)
\* queue_work(wq, &boost_work): sets WORK_STRUCT_PENDING; a work that is
\* already pending is not queued a second time
queue_work(pending) == TRUE

\* what mod_delayed_work would do in the place of queue_delayed_work: the
\* timer of a pending work is set anew.  C4 does not hold of it.
queue_delayed_work_mod(d, delay) ==
  IF d.st = "cancel" THEN d
  ELSE IF delay = 0 THEN [st |-> "queued", left |-> 0]
  ELSE [st |-> "timer", left |-> delay]

\* queue_delayed_work(wq, &unboost_work, delay): does nothing when the work
\* is already pending (timer armed, queued, or held by a canceller);
\* otherwise queues it at once for delay 0 and arms its timer for delay > 0
queue_delayed_work(d, delay) ==
  IF d.st # "idle" THEN d
  ELSE IF delay = 0 THEN [st |-> "queued", left |-> 0]
  ELSE [st |-> "timer", left |-> delay]

\* the return value of cancel_delayed_work_sync: whether the work was pending
cancel_was_pending(d) == d.st \in {"timer", "queued"}

(* ---------------------------------------------------- the policy notifier *)
\* variants of do_cpu_boost that each lack one line of it: the raise of
\* policy->max in the BOOST case (C7 does not hold of it), the write of
\* NO_BOOST in the UNBOOST case (C8), the test of the action (C9)
do_cpu_boost_noraise(action, seen, info, policy) ==
  IF action # CPUFREQ_ADJUST THEN [policy |-> policy, write |-> "none"]
  ELSE CASE seen = UNBOOST ->
              [policy |-> [policy EXCEPT !.min = info.min_freq],
               write |-> NO_BOOST]
         [] seen = BOOST ->
              [policy |-> [policy EXCEPT !.min = info.max_freq],
               write |-> "none"]
         [] OTHER -> [policy |-> policy, write |-> "none"]

do_cpu_boost_nostate(action, seen, info, policy) ==
  IF action # CPUFREQ_ADJUST THEN [policy |-> policy, write |-> "none"]
  ELSE CASE seen = UNBOOST ->
              [policy |-> [policy EXCEPT !.min = info.min_freq],
               write |-> "none"]
         [] seen = BOOST ->
              [policy |-> [min |-> info.max_freq,
                           max |-> IF policy.max < info.max_freq
                                   THEN info.max_freq ELSE policy.max],
               write |-> "none"]
         [] OTHER -> [policy |-> policy, write |-> "none"]

do_cpu_boost_anyaction(action, seen, info, policy) ==
  CASE seen = UNBOOST ->
         [policy |-> [policy EXCEPT !.min = info.min_freq],
          write |-> NO_BOOST]
    [] seen = BOOST ->
         [policy |-> [min |-> info.max_freq,
                      max |-> IF policy.max < info.max_freq
                              THEN info.max_freq ELSE policy.max],
          write |-> "none"]
    [] OTHER -> [policy |-> policy, write |-> "none"]

\* do_cpu_boost on (action, the value read from w->state, policy->cpuinfo,
\* the policy handed in): the policy handed back and the value written to
\* w->state ("none" when the state is not written)
do_cpu_boost(action, seen, info, policy) ==
  IF action # CPUFREQ_ADJUST THEN [policy |-> policy, write |-> "none"]
  ELSE CASE seen = UNBOOST ->
              [policy |-> [policy EXCEPT !.min = info.min_freq],
               write |-> NO_BOOST]
         [] seen = BOOST ->
              [policy |-> [min |-> info.max_freq,
                           max |-> IF policy.max < info.max_freq
                                   THEN info.max_freq ELSE policy.max],
               write |-> "none"]
         [] OTHER -> [policy |-> policy, write |-> "none"]

\* cpufreq_update_policy(cpu) holds the policy's rwsem around the notifier
\* chain: two evaluations of one cpu's policy do not overlap
PolicyFree(cpu) ==
  /\ ~(bw.pc = "apply" /\ bw.cpu = cpu)
  /\ ~(uw.pc = "apply" /\ uw.cpu = cpu)
  /\ ~(ext.pc = "apply" /\ ext.cpu = cpu)

\* the frame of a worker after the notifier returned for frame.cpu:
\* update_online_cpu_policy goes on to the next online cpu, or returns
NextCpu(frame, after) ==
  IF frame.cpu < NCPU
  THEN [frame EXCEPT !.pc = "read", !.cpu = frame.cpu + 1, !.seen = NO_BOOST]
  ELSE [frame EXCEPT !.pc = after, !.cpu = 0, !.seen = NO_BOOST]

\* policy->user_policy of a cpu, from which cpufreq_update_policy starts
user_policy(cpu) ==
  [min |-> cpuinfo(cpu).min_freq, max |-> cpuinfo(cpu).max_freq]

\* the frame of wake_unboost once another context touches state or policy
Disturbed(frame) ==
  IF frame.pc = "idle" THEN frame ELSE [frame EXCEPT !.alone = FALSE]

\* a variant of StateAfter that stores whatever do_cpu_boost hands back,
\* a written value or not (C14 does not hold of it)
StateAfter_raw(seen, cpu, policy) ==
  do_cpu_boost(CPUFREQ_ADJUST, seen, cpuinfo(cpu), policy).write

\* a variant of StateAfter in which the notifier leaves w->state alone
\* (C15 does not hold of it)
StateAfter_nowrite(seen, cpu, policy) == state

\* w->state after do_cpu_boost has acted on what it read: the value it
\* writes, or the state as it is when it writes none
StateAfter(seen, cpu, policy) ==
  LET r == do_cpu_boost(CPUFREQ_ADJUST, seen, cpuinfo(cpu), policy)
  IN IF r.write = "none" THEN state ELSE r.write

(* --------------------------------------------------- the module parameter *)
\* variants of set_wake_boost: one that stores and queues before it looks at
\* what sscanf returned (C6 does not hold of it), one that stores the value
\* and does not queue boost_work (C10 does not hold of it)
set_wake_boost_novalidate(r) ==
  /\ UNCHANGED <<state, bw, dw, uw, ext, fb, boot>>
  /\ wake_boost_time' = r.val
  /\ boost_pending' = queue_work(boost_pending)
  /\ param_ret' = IF r.n # 1 THEN -EINVAL ELSE 0
  /\ last_ev' = "param"

set_wake_boost_noqueue(r) ==
  /\ UNCHANGED <<state, bw, dw, uw, ext, fb, boost_pending, boot>>
  /\ IF r.n # 1
     THEN /\ param_ret' = -EINVAL
          /\ UNCHANGED <<wake_boost_time, last_ev>>
     ELSE /\ wake_boost_time' = r.val
          /\ param_ret' = 0
          /\ last_ev' = "param"

\* set_wake_boost after its sscanf gave r: -EINVAL unless one number was
\* converted, else the number is stored and boost_work queued; nothing but
\* wake_boost_time and the pending bit of boost_work is touched
set_wake_boost_scanned(r) ==
  /\ UNCHANGED <<state, bw, dw, uw, ext, fb, boot>>
  /\ IF r.n # 1
     THEN /\ param_ret' = -EINVAL
          /\ UNCHANGED <<wake_boost_time, boost_pending, last_ev>>
     ELSE /\ wake_boost_time' = r.val
          /\ boost_pending' = queue_work(boost_pending)
          /\ param_ret' = 0
          /\ last_ev' = "param"

\* set_wake_boost(buf, kp)
set_wake_boost(buf) == set_wake_boost_scanned(sscanf_u(buf))

\* the character of a decimal digit
DigitChar(d) == <<"0", "1", "2", "3", "4", "5", "6", "7", "8", "9">>[d + 1]

\* a variant of snprintf_u that writes the last digit only (C12 does not
\* hold of it)
snprintf_u_last(n) ==
  [buf |-> <<DigitChar(n % 10)>>, cnt |-> 1]

\* snprintf(buf, PAGE_SIZE, "%u", n): the decimal digits of n, most
\* significant first, no sign and no padding, and their number as the
\* return value (PAGE_SIZE is never reached by an unsigned int)
RECURSIVE utoa(_)
utoa(n) ==
  IF n < 10 THEN <<DigitChar(n)>>
  ELSE Append(utoa(n \div 10), DigitChar(n % 10))
snprintf_u(n) == LET s == utoa(n) IN [buf |-> s, cnt |-> Len(s)]

\* get_wake_boost(buf, kp): what a read of the parameter gives in the
\* current state; it changes nothing
get_wake_boost == snprintf_u(wake_boost_time)

(* -------------------------------------------------- framebuffer notifier *)
\* a variant of fb_notifier_callback whose unblank branch queues boost_work
\* and leaves wake_boost_time as it is (C11 does not hold of it)
fb_notifier_callback_keep(action, blank) ==
  /\ fb.pc = "idle"
  /\ IF action # FB_EARLY_EVENT_BLANK THEN UNCHANGED vars
     ELSE IF blank = FB_BLANK_UNBLANK
     THEN /\ boost_pending' = queue_work(boost_pending)
          /\ last_ev' = "active"
          /\ UNCHANGED <<state, wake_boost_time, bw, dw, uw, ext, fb,
                         param_ret, boot>>
     ELSE /\ fb' = [pc |-> "flush", ret |-> cancel_was_pending(dw)]
          /\ dw' = [st |-> "cancel", left |-> 0]
          /\ last_ev' = IF last_ev \in {"active", "inactive"}
                        THEN "inactive" ELSE "blank"
          /\ UNCHANGED <<state, wake_boost_time, boost_pending, bw, uw, ext,
                         param_ret, boot>>

\* fb_notifier_callback up to the return of the unblank branch, or up to
\* the point where cancel_delayed_work_sync has taken the pending bit
fb_notifier_callback(action, blank) ==
  /\ fb.pc = "idle"
  /\ IF action # FB_EARLY_EVENT_BLANK THEN UNCHANGED vars
     ELSE IF blank = FB_BLANK_UNBLANK
     THEN /\ wake_boost_time' = FB_BOOST_MS
          /\ boost_pending' = queue_work(boost_pending)
          /\ last_ev' = "active"
          /\ UNCHANGED <<state, bw, dw, uw, ext, fb, param_ret, boot>>
     ELSE /\ fb' = [pc |-> "flush", ret |-> cancel_was_pending(dw)]
          /\ dw' = [st |-> "cancel", left |-> 0]
          /\ last_ev' = IF last_ev \in {"active", "inactive"}
                        THEN "inactive" ELSE "blank"
          /\ UNCHANGED <<state, wake_boost_time, boost_pending, bw, uw, ext,
                         param_ret, boot>>

\* cancel_delayed_work_sync, second half: flush_work waits until a running
\* wake_unboost has returned, then the pending bit is released
fb_cancel_flush ==
  /\ fb.pc = "flush"
  /\ uw.pc = "idle"
  /\ dw' = DwIdle
  /\ fb' = IF fb.ret THEN [pc |-> "requeue", ret |-> TRUE] ELSE FbIdle
  /\ UNCHANGED <<state, wake_boost_time, boost_pending, bw, uw, ext, param_ret,
                 last_ev, boot>>

\* queue_delayed_work(w->wq, &w->unboost_work, 0) of the blank branch
fb_requeue ==
  /\ fb.pc = "requeue"
  /\ dw' = queue_delayed_work(dw, 0)
  /\ fb' = FbIdle
  /\ UNCHANGED <<state, wake_boost_time, boost_pending, bw, uw, ext, param_ret,
                 last_ev, boot>>

(* ------------------------------------------------------------ wake_boost *)
\* a worker takes boost_work (clearing its pending bit) and runs wake_boost
\* up to w->state = BOOST
wake_boost_start ==
  /\ boost_pending
  /\ bw.pc = "idle"
  /\ boost_pending' = FALSE
  /\ state' = BOOST
  /\ bw' = [pc |-> "read", cpu |-> 1, seen |-> NO_BOOST]
  /\ uw' = Disturbed(uw)
  /\ UNCHANGED <<wake_boost_time, dw, ext, fb, param_ret, last_ev, boot>>

\* update_online_cpu_policy: do_cpu_boost reads w->state for bw.cpu
wake_boost_read ==
  /\ bw.pc = "read"
  /\ PolicyFree(bw.cpu)
  /\ bw' = [bw EXCEPT !.pc = "apply", !.seen = state]
  /\ UNCHANGED <<state, wake_boost_time, boost_pending, dw, uw, ext, fb,
                 param_ret, last_ev, boot>>

\* update_online_cpu_policy: do_cpu_boost acts on what it read
wake_boost_apply ==
  /\ bw.pc = "apply"
  /\ state' = StateAfter(bw.seen, bw.cpu, user_policy(bw.cpu))
  /\ bw' = NextCpu(bw, "queue")
  /\ UNCHANGED <<wake_boost_time, boost_pending, dw, uw, ext, fb, param_ret,
                 last_ev, boot>>

\* queue_delayed_work(w->wq, &w->unboost_work,
\*                    msecs_to_jiffies(wake_boost_time)), and return
wake_boost_queue ==
  /\ bw.pc = "queue"
  /\ dw' = queue_delayed_work(dw, msecs_to_jiffies(wake_boost_time))
  /\ bw' = WorkerIdle
  /\ UNCHANGED <<state, wake_boost_time, boost_pending, uw, ext, fb, param_ret,
                 last_ev, boot>>

(* ---------------------------------------------------------- wake_unboost *)
\* a worker takes the queued unboost_work (clearing its pending bit) and
\* runs wake_unboost up to w->state = UNBOOST
wake_unboost_start ==
  /\ dw.st = "queued"
  /\ uw.pc = "idle"
  /\ dw' = DwIdle
  /\ state' = UNBOOST
  /\ uw' = [pc |-> "read", cpu |-> 1, seen |-> NO_BOOST,
            alone |-> bw.pc \in {"idle", "queue"} /\ ext.pc = "idle"]
  /\ UNCHANGED <<wake_boost_time, boost_pending, bw, ext, fb, param_ret,
                 last_ev, boot>>

wake_unboost_read ==
  /\ uw.pc = "read"
  /\ PolicyFree(uw.cpu)
  /\ uw' = [uw EXCEPT !.pc = "apply", !.seen = state]
  /\ UNCHANGED <<state, wake_boost_time, boost_pending, bw, dw, ext, fb,
                 param_ret, last_ev, boot>>

wake_unboost_apply ==
  /\ uw.pc = "apply"
  /\ state' = StateAfter(uw.seen, uw.cpu, user_policy(uw.cpu))
  /\ uw' = NextCpu(uw, "idle")
  /\ UNCHANGED <<wake_boost_time, boost_pending, bw, dw, ext, fb, param_ret,
                 last_ev, boot>>

(* ------------------------------------------------------------ the timer *)
\* time passes while the timer of unboost_work is armed: by TickJ, or up
\* to the expiry of the timer
Elapse(d) ==
  /\ dw.st = "timer"
  /\ d > 0
  /\ d <= dw.left
  /\ dw' = [dw EXCEPT !.left = dw.left - d]
  /\ UNCHANGED <<state, wake_boost_time, boost_pending, bw, uw, ext, fb,
                 param_ret, last_ev, boot>>

\* delayed_work_timer_fn: the expired timer queues unboost_work
TimerFire ==
  /\ dw.st = "timer"
  /\ dw.left = 0
  /\ dw' = [st |-> "queued", left |-> 0]
  /\ UNCHANGED <<state, wake_boost_time, boost_pending, bw, uw, ext, fb,
                 param_ret, last_ev, boot>>

(* ------------------------------------- policy evaluations from elsewhere *)
\* the policy engine calls do_cpu_boost for a cpu outside the two work
\* items: any action but CPUFREQ_ADJUST returns at once, CPUFREQ_ADJUST
\* reads w->state
policy_call(cpu, action) ==
  /\ ext.pc = "idle"
  /\ IF action # CPUFREQ_ADJUST THEN UNCHANGED <<ext, uw>>
     ELSE /\ PolicyFree(cpu)
          /\ ext' = [pc |-> "apply", cpu |-> cpu, seen |-> state]
          /\ uw' = Disturbed(uw)
  /\ UNCHANGED <<state, wake_boost_time, boost_pending, bw, dw, fb, param_ret,
                 last_ev, boot>>

\* do_cpu_boost acts on what it read, for any policy handed in
policy_apply(policy) ==
  /\ ext.pc = "apply"
  /\ state' = StateAfter(ext.seen, ext.cpu, policy)
  /\ ext' = WorkerIdle
  /\ UNCHANGED <<wake_boost_time, boost_pending, bw, dw, uw, fb, param_ret,
                 last_ev, boot>>

(* ------------------------------------------------------- initialisation *)
\* cpu_wake_boost_init, one step for each call that can fail; ok is
\* whether the call succeeds
BootStart ==
  [pc |-> "kzalloc", ret |-> 0, w |-> FALSE, wq |-> FALSE,
   cpu_notif |-> FALSE, fb_notif |-> FALSE]

\* w = kzalloc(sizeof(*w), GFP_KERNEL); if (!w) return -ENOMEM;
init_kzalloc(ok) ==
  /\ boot.pc = "kzalloc"
  /\ boot' = IF ok THEN [boot EXCEPT !.pc = "wq", !.w = TRUE]
             ELSE [boot EXCEPT !.pc = "done", !.ret = -ENOMEM]
  /\ UNCHANGED <<state, wake_boost_time, boost_pending, bw, dw, uw, ext, fb,
                 param_ret, last_ev>>

\* w->wq = alloc_workqueue(...); if (!w->wq) { kfree(w); return -ENOMEM; }
\* then wake_info = w and the two work items are initialised
init_alloc_workqueue(ok) ==
  /\ boot.pc = "wq"
  /\ boot' = IF ok THEN [boot EXCEPT !.pc = "cpufreq", !.wq = TRUE]
             ELSE [boot EXCEPT !.pc = "done", !.w = FALSE, !.ret = -ENOMEM]
  /\ UNCHANGED <<state, wake_boost_time, boost_pending, bw, dw, uw, ext, fb,
                 param_ret, last_ev>>

\* cpufreq_register_notifier(&w->cpu_notif, CPUFREQ_POLICY_NOTIFIER): what
\* it returns is not looked at
init_cpufreq_register_notifier(ok) ==
  /\ boot.pc = "cpufreq"
  /\ boot' = [boot EXCEPT !.pc = "fb", !.cpu_notif = ok]
  /\ UNCHANGED <<state, wake_boost_time, boost_pending, bw, dw, uw, ext, fb,
                 param_ret, last_ev>>

\* fb_register_client(&w->fb_notif): what it returns is not looked at;
\* return 0
init_fb_register_client(ok) ==
  /\ boot.pc = "fb"
  /\ boot' = [boot EXCEPT !.pc = "done", !.fb_notif = ok, !.ret = 0]
  /\ UNCHANGED <<state, wake_boost_time, boost_pending, bw, dw, uw, ext, fb,
                 param_ret, last_ev>>

(* --------------------------------------------------------- specification *)
Next ==
  \/ \E buf \in BufReps : set_wake_boost(buf)
  \/ \E a \in FbActions, b \in FbBlanks : fb_notifier_callback(a, b)
  \/ fb_cancel_flush
  \/ fb_requeue
  \/ wake_boost_start
  \/ wake_boost_read
  \/ wake_boost_apply
  \/ wake_boost_queue
  \/ wake_unboost_start
  \/ wake_unboost_read
  \/ wake_unboost_apply
  \/ \E d \in {TickJ, dw.left} : Elapse(d)
  \/ TimerFire
  \/ \E c \in Cpus, a \in CpufreqActions : policy_call(c, a)
  \/ \E p \in Policies : policy_apply(p)

Spec == Init /\ [][Next]_vars

\* the module from the start of cpu_wake_boost_init on; the handlers, work
\* items and timer act once the controller is installed
BootInit ==
  /\ boot = BootStart
  /\ state = NO_BOOST
  /\ wake_boost_time = 0
  /\ boost_pending = FALSE
  /\ bw = WorkerIdle
  /\ dw = DwIdle
  /\ uw = UnboostIdle
  /\ ext = WorkerIdle
  /\ fb = FbIdle
  /\ param_ret = 0
  /\ last_ev = "none"

BootNext ==
  \/ \E ok \in BOOLEAN : init_kzalloc(ok)
  \/ \E ok \in BOOLEAN : init_alloc_workqueue(ok)
  \/ \E ok \in BOOLEAN : init_cpufreq_register_notifier(ok)
  \/ \E ok \in BOOLEAN : init_fb_register_client(ok)
  \/ (boot = Booted /\ Next)

BootSpec == BootInit /\ [][BootNext]_vars

\* the scheduling that boost_work relies on: a pending boost_work is taken
\* by a worker, the work function goes on once started, every holder of a
\* policy's rwsem releases it and the rwsem is handed to the one that waits
BoostFairness ==
  /\ WF_vars(wake_boost_start)
  /\ SF_vars(wake_boost_read)
  /\ WF_vars(wake_boost_apply)
  /\ WF_vars(wake_boost_queue)
  /\ WF_vars(wake_unboost_apply)
  /\ WF_vars(\E p \in Policies : policy_apply(p))

FairSpec == Spec /\ BoostFairness

(* ---------------------------------------------------------------- claims *)
\* the evaluations of do_cpu_boost in flight: who is between the read of
\* w->state and the writes that follow it, for which cpu, having read what
Callers ==
  {[pc |-> f.pc, cpu |-> f.cpu, seen |-> f.seen] : f \in {bw, uw, ext}}
Applying(seen) == {f \in Callers : f.pc = "apply" /\ f.seen = seen}

\* what arming unboost_work for j jiffies gives
Armed(j) ==
  IF j = 0 THEN [st |-> "queued", left |-> 0] ELSE [st |-> "timer", left |-> j]

\* a buffer that holds a number: a decimal digit after white space only
Numeric(b) ==
  \E i \in 1..Len(b) :
    /\ b[i] \in Digits
    /\ \A j \in 1..(i - 1) : b[j] \in {" ", "\n", "\t"}
NonNumericBufs == {b \in Bufs : ~Numeric(b)}
NumericBufs == {b \in Bufs : Numeric(b)}

\* the number a numeric buffer holds: its first run of digits, by position
RECURSIVE PlaceValue(_, _, _)
PlaceValue(b, i, k) ==
  IF i > k THEN 0 ELSE DigitVal(b[i]) * (10 ^ (k - i)) + PlaceValue(b, i + 1, k)
NumberIn(b) ==
  LET i == CHOOSE x \in 1..Len(b) :
             b[x] \in Digits /\ \A j \in 1..(x - 1) : b[j] \notin Digits
      k == CHOOSE x \in i..Len(b) :
             /\ \A j \in i..x : b[j] \in Digits
             /\ (x = Len(b) \/ b[x + 1] \notin Digits)
  IN PlaceValue(b, i, k)

\* C1 (as claimed): once the handler of a display-inactive signal that
\* followed a display-active signal has returned, and no wake or parameter
\* write has come since, the state is not left BOOST waiting for an unboost
\* timer that still has time to run.
C1_EarlyRelease ==
  (last_ev = "inactive" /\ fb.pc = "idle")
    => ~(state = BOOST /\ dw.st = "timer" /\ dw.left > 0)

\* C2 (as claimed): when the boost task that follows a display-active
\* signal schedules the unboost (no display-inactive handler being under
\* way), the unboost is due exactly msecs_to_jiffies(wake_boost_time) after
\* that step, whatever was pending before.
C2_TimerPath ==
  [][(wake_boost_queue /\ last_ev = "active" /\ fb.pc = "idle")
       => dw' = Armed(msecs_to_jiffies(wake_boost_time))]_vars

\* C3 (as claimed): when the boost task triggered by a parameter write runs
\* while the state is BOOST and an unboost timer is pending, the cycle it
\* starts is due msecs_to_jiffies(v) after its scheduling step.
C3_Reconfigure ==
  [][(wake_boost_queue /\ last_ev = "param" /\ state = BOOST
        /\ dw.st = "timer" /\ fb.pc = "idle")
       => dw' = Armed(msecs_to_jiffies(wake_boost_time))]_vars

\* C4: a pending unboost timer is left as it is, deadline included, by every
\* set_wake_boost call and by every step of the boost task: a step that
\* changes a pending timer is neither of them.
BoostTaskStep ==
  wake_boost_start \/ wake_boost_read \/ wake_boost_apply \/ wake_boost_queue
C4_NoRetroactive ==
  [][(dw.st = "timer" /\ dw' # dw)
       => ~(\/ BoostTaskStep
            \/ \E r \in ScanResults : set_wake_boost_scanned(r))]_vars

\* C4 witness: the boost task queued by a parameter write has run to its
\* end while a timer armed for another duration stayed pending.
C4_Witness ==
  /\ last_ev = "param"
  /\ ~boost_pending
  /\ bw.pc = "idle"
  /\ dw.st = "timer"
  /\ dw.left > msecs_to_jiffies(wake_boost_time)

\* C5 (as claimed): wake_boost and wake_unboost are never both between
\* their start and their end.
C5_Serialized == ~(bw.pc # "idle" /\ uw.pc # "idle")

C7_Boosted ==
  \A f \in Applying(BOOST) : \A p \in Policies :
    LET r == do_cpu_boost(CPUFREQ_ADJUST, f.seen, cpuinfo(f.cpu), p)
    IN /\ r.policy.min = cpuinfo(f.cpu).max_freq
       /\ r.policy.max >= r.policy.min
       /\ r.policy.max = IF p.max < r.policy.min THEN r.policy.min ELSE p.max
       /\ StateAfter(f.seen, f.cpu, p) = state

\* C7 witness: the boost task's evaluation of the last cpu has read BOOST
\* while state is BOOST (the cpus before it were evaluated the same way).
C7_Witness ==
  bw.pc = "apply" /\ bw.cpu = NCPU /\ bw.seen = BOOST /\ state = BOOST

\* C8: a do_cpu_boost evaluation that read UNBOOST hands back min =
\* cpuinfo.min_freq with max as handed in, and writes NO_BOOST; and in a
\* run of wake_unboost that no other context interferes with, the
\* evaluation of the first cpu is the one that reads UNBOOST, the
\* evaluations of the later cpus read NO_BOOST and hand the policy back as
\* it came.
C8_ReleasedOnce ==
  /\ \A f \in Applying(UNBOOST) : \A p \in Policies :
       /\ do_cpu_boost(CPUFREQ_ADJUST, f.seen, cpuinfo(f.cpu), p).policy
            = [min |-> cpuinfo(f.cpu).min_freq, max |-> p.max]
       /\ StateAfter(f.seen, f.cpu, p) = NO_BOOST
  /\ (uw.pc = "apply" /\ uw.alone) =>
       /\ uw.seen = IF uw.cpu = 1 THEN UNBOOST ELSE NO_BOOST
       /\ uw.cpu > 1 => \A p \in Policies :
            /\ do_cpu_boost(CPUFREQ_ADJUST, uw.seen, cpuinfo(uw.cpu), p).policy
                 = p
            /\ StateAfter(uw.seen, uw.cpu, p) = state

\* C8 witness: an undisturbed run of wake_unboost has reached its last cpu.
C8_Witness == uw.pc = "apply" /\ uw.alone /\ uw.cpu = NCPU /\ NCPU > 1

\* C9: a do_cpu_boost evaluation that read NO_BOOST hands every policy back
\* as it came and does not write the state; and for every action other than
\* CPUFREQ_ADJUST that holds whatever the state is.
C9_Idle ==
  /\ \A f \in Applying(NO_BOOST) : \A p \in Policies :
       /\ do_cpu_boost(CPUFREQ_ADJUST, f.seen, cpuinfo(f.cpu), p).policy = p
       /\ StateAfter(f.seen, f.cpu, p) = state
  /\ \A a \in CpufreqActions \ {CPUFREQ_ADJUST} :
       \A c \in Cpus, p \in Policies :
         do_cpu_boost(a, state, cpuinfo(c), p)
           = [policy |-> p, write |-> "none"]

\* C9 witness: an evaluation outside the work items read NO_BOOST on the
\* cpu whose limits lie inside the frequency range.
C9_Witness ==
  ext.pc = "apply" /\ ext.seen = NO_BOOST /\ ext.cpu = NCPU /\ state = NO_BOOST

\* C10: a set_wake_boost call on a buffer that holds a number v returns 0
\* with wake_boost_time = v and boost_work pending, whatever the state and
\* whether or not the boost task is running (sscanf converts v from such a
\* buffer, and a call whose sscanf converted v stores v and queues
\* boost_work); and a pending boost_work leads to state BOOST.
C10_SetterArms ==
  /\ \A buf \in NumericBufs : sscanf_u(buf) = [n |-> 1, val |-> NumberIn(buf)]
  /\ [][\A r \in ScanResults :
         (r.n = 1 /\ set_wake_boost_scanned(r))
           => /\ param_ret' = 0
              /\ wake_boost_time' = r.val
              /\ boost_pending']_vars
  /\ (boost_pending ~> state = BOOST)

\* C10 witness: a parameter write has queued boost_work while the boost
\* task of an earlier cycle is still running.
C10_Witness ==
  /\ last_ev = "param"
  /\ param_ret = 0
  /\ boost_pending
  /\ bw.pc = "queue"
  /\ dw.st = "timer"
  /\ wake_boost_time # FB_BOOST_MS

\* C11: a call of fb_notifier_callback for an early unblank event leaves
\* wake_boost_time = FB_BOOST_MS whatever was stored before, and boost_work
\* pending; it touches nothing else, so a boost_work that was already
\* pending stays the one pending instance and a running wake_boost is not
\* joined by a second one; and the worker that takes boost_work leaves no
\* further instance pending.
C11_WakeDefault ==
  /\ [][fb_notifier_callback(FB_EARLY_EVENT_BLANK, FB_BLANK_UNBLANK)
         => /\ wake_boost_time' = FB_BOOST_MS
            /\ boost_pending' = TRUE
            /\ UNCHANGED <<state, bw, dw, uw, ext, fb>>]_vars
  /\ [][wake_boost_start => (boost_pending /\ ~boost_pending')]_vars

\* C11 witness: a wake has come while boost_work was not yet taken and a
\* timer armed from a written duration (under 100 ms) is pending: the
\* stored duration is FB_BOOST_MS all the same.
C11_Witness ==
  /\ last_ev = "active"
  /\ wake_boost_time = FB_BOOST_MS
  /\ boost_pending
  /\ dw.st = "timer"
  /\ dw.left \in 1..9

\* a successful write to the parameter, an early unblank event
SetStep == \E r \in ScanResults : r.n = 1 /\ set_wake_boost_scanned(r)
WakeStep == fb_notifier_callback(FB_EARLY_EVENT_BLANK, FB_BLANK_UNBLANK)

\* C12 (as claimed): a read gives the value of the most recent successful
\* write, after any sequence of operations: a successful write of v makes
\* the read give v, and no other step changes what a read gives.
C12_ReadBack ==
  /\ [][\A r \in ScanResults :
         (r.n = 1 /\ set_wake_boost_scanned(r))
           => get_wake_boost' = snprintf_u(r.val)]_vars
  /\ [][(get_wake_boost' # get_wake_boost) => SetStep]_vars

\* C12 (amended): a read gives the decimal digits of the value stored last,
\* which sscanf reads back as that value: v after a successful write of v,
\* FB_BOOST_MS after an early unblank event; no other step changes what a
\* read gives.  (A read is a function of wake_boost_time: the reading back
\* is stated of every value that is ever stored, and only the steps that
\* change wake_boost_time can change what a read gives.)
Storable == {0, FB_BOOST_MS} \cup {r.val : r \in ScanResults}
ReadsBack(v) ==
  LET got == snprintf_u(v)
  IN /\ sscanf_u(got.buf) = [n |-> 1, val |-> v]
     /\ got.cnt = Len(got.buf)
C12_ReadStored ==
  /\ \A v \in Storable : ReadsBack(v)
  /\ wake_boost_time \in Storable
  /\ [][wake_boost_time' \in Storable]_vars
  /\ [][\A r \in ScanResults :
         (r.n = 1 /\ set_wake_boost_scanned(r))
           => get_wake_boost' = snprintf_u(r.val)]_vars
  /\ [][WakeStep => get_wake_boost.buf' = <<"2", "0", "0", "0">>]_vars
  /\ [][(wake_boost_time' # wake_boost_time
          /\ get_wake_boost' # get_wake_boost) => (SetStep \/ WakeStep)]_vars

\* C12 witness: a read gives "2000" after a wake that followed a successful
\* write of another duration (whose timer is still pending).
C12_Witness ==
  /\ get_wake_boost = [buf |-> <<"2", "0", "0", "0">>, cnt |-> 4]
  /\ last_ev \in {"active", "inactive", "blank"}
  /\ param_ret = 0
  /\ dw.st = "timer"
  /\ dw.left \in 1..9

\* C13 (as claimed): when cpu_wake_boost_init has returned and one of its
\* four steps (kzalloc, alloc_workqueue, cpufreq_register_notifier,
\* fb_register_client) failed, it returned an error and nothing is left
\* allocated or registered.
C13_StartupFatal ==
  (boot.pc = "done"
     /\ ~(boot.w /\ boot.wq /\ boot.cpu_notif /\ boot.fb_notif))
    => /\ boot.ret # 0
       /\ ~boot.w /\ ~boot.wq /\ ~boot.cpu_notif /\ ~boot.fb_notif

\* C14: the state starts as NO_BOOST (Idle) and is, in every state reached by
\* any interleaving of the handlers, work items, timer and policy
\* evaluations, one of NO_BOOST, UNBOOST, BOOST; every value of the state
\* that an evaluation of do_cpu_boost has read and is acting on is one of
\* the three as well.
StateDomain ==
  /\ state \in boost_state
  /\ \A f \in Callers : f.pc = "apply" => f.seen \in boost_state
C14_StateDomain ==
  /\ state = NO_BOOST
  /\ StateDomain
  /\ [][StateDomain']_vars

\* the state is BOOST while one evaluation acts on UNBOOST and another on
\* BOOST
C14_Witness ==
  /\ state = BOOST
  /\ ext.pc = "apply" /\ ext.seen = UNBOOST
  /\ bw.pc = "apply" /\ bw.seen = BOOST
  /\ last_ev \in {"inactive", "blank"}

\* a step in which an evaluation of do_cpu_boost acts on what it read
ApplyStep ==
  wake_boost_apply \/ wake_unboost_apply \/ \E p \in Policies : policy_apply(p)
\* the step with which wake_unboost returns
UnboostReturns == wake_unboost_apply /\ uw'.pc = "idle"

\* C15 (as claimed): when the unboost task finishes the state is still
\* UNBOOST (Released); the step from UNBOOST to NO_BOOST is not taken inside
\* the task.
C15_LazyRelease ==
  /\ [][UnboostReturns => state' = UNBOOST]_vars
  /\ [][(state = UNBOOST /\ state' = NO_BOOST) => ~wake_unboost_apply]_vars

\* C15 (amended): the unboost task sets the state to UNBOOST and goes on to
\* the re-evaluation of every cpu's policy; the state goes from UNBOOST to
\* NO_BOOST only in a step of do_cpu_boost that had read UNBOOST, and the
\* re-evaluation runs do_cpu_boost inside the task: when the task returns
\* the state is UNBOOST no more, and it is NO_BOOST when nothing else has
\* written the state or evaluated a policy meanwhile.
C15_ReleaseInTask ==
  /\ [][wake_unboost_start => (state' = UNBOOST /\ uw'.pc = "read")]_vars
  /\ [][(state = UNBOOST /\ state' # UNBOOST /\ ~wake_boost_start)
         => (state' = NO_BOOST /\ ApplyStep /\ Applying(UNBOOST) # {})]_vars
  /\ [][UnboostReturns
         => (state' # UNBOOST /\ (uw.alone => state' = NO_BOOST))]_vars

\* the last evaluation of an unboost task that ran alone is under way and
\* the state is NO_BOOST already
C15_Witness ==
  /\ uw.pc = "apply" /\ uw.cpu = NCPU /\ uw.alone
  /\ uw.seen = NO_BOOST /\ state = NO_BOOST
  /\ bw.pc = "idle" /\ ext.pc = "idle"

\* C16 (as claimed): when the handler of a display-inactive signal has found
\* no unboost pending (cancel_delayed_work_sync is to return false), nothing
\* is boosted: the state is not BOOST and boost_work is neither queued nor
\* running.
C16_NothingBoosted ==
  (fb.pc = "flush" /\ ~fb.ret)
    => (state # BOOST /\ ~boost_pending /\ bw.pc = "idle")

\* C17 (as claimed): when the handler of a display-inactive signal that found
\* an unboost pending returns, unboost_work is queued with no delay or
\* wake_unboost is running, whatever a concurrent wake_boost does.
C17_ImmediateUnboost ==
  [][fb_requeue => (dw'.st = "queued" \/ uw'.pc # "idle")]_vars

\* C18 (as claimed): the write of NO_BOOST by an evaluation of do_cpu_boost
\* that had read UNBOOST never replaces a BOOST that wake_boost wrote after
\* that read.
C18_NoLostBoost ==
  [][(ApplyStep /\ state = BOOST) => state' = BOOST]_vars

\* C19 (as claimed): while the unboost timer that a completed boost task
\* armed is running (it has neither fired nor been cancelled) and no work
\* function is executing, the state is BOOST.
C19_BoostedWhileArmed ==
  (dw.st = "timer" /\ bw.pc = "idle" /\ uw.pc = "idle" /\ ext.pc = "idle")
    => state = BOOST

\* C20 (as claimed): in every reachable state where the state is BOOST,
\* boost_work is queued or running, or unboost_work is pending (on its
\* timer, queued, or held by a display-inactive handler that will queue it
\* again) or running.
C20_NoPermanentBoost ==
  state = BOOST
    => \/ boost_pending
       \/ bw.pc # "idle"
       \/ dw.st \in {"timer", "queued"}
       \/ uw.pc # "idle"
       \/ (fb.pc # "idle" /\ fb.ret)

====
